---------------------------- MODULE Spec2Model ----------------------------
(***************************************************************************)
(* Model of the Mopeka BLE integration: the advertisement decoder          *)
(* (parser.py), the temperature compensation and the tank geometry         *)
(* (const.py).                                                             *)
(*                                                                         *)
(* Numbers.  Python floats are carried as fixed-point integers:            *)
(*   - a length of x mm is the integer x * LenUnit (LenUnit = 10^5, i.e.   *)
(*     the length in metres with Scale = 10^8 units per metre);            *)
(*   - areas, volumes, angles and ratios are the SI value times Scale;     *)
(*   - a percentage p is the integer p * PctUnit.                          *)
(* The product and quotient of two such numbers are computed with the full *)
(* intermediate precision (MulQR)  and truncated to the unit, so the       *)
(* formulas below are the source's expressions, operation by operation.    *)
(* A Python exception is an outcome of its own ([exc |-> name]).           *)
(***************************************************************************)
EXTENDS Integers, Sequences, FiniteSets, TLC

----------------------------------------------------------------------------
(* Fixed-point arithmetic                                                  *)

Scale == 10^8
LenUnit == 10^5
PctUnit == 10^6

Abs(x) == IF x < 0 THEN -x ELSE x
Sign(x) == IF x < 0 THEN -1 ELSE 1
Max2(a, b) == IF a >= b THEN a ELSE b
Min2(a, b) == IF a <= b THEN a ELSE b

Half == 10^4

(* <<floor(x*y/Scale), (x*y) mod Scale>> for 0 <= x, y < 2^30: the product   *)
(* of the two halves of each operand, so that no intermediate value leaves   *)
(* 32 bits.                                                                  *)
MulQR(x, y) ==
    LET x1 == x \div Half
        x0 == x % Half
        y1 == y \div Half
        y0 == y % Half
        low == x0 * y0
        t == (x1 * y0 + x0 * y1) + (low \div Half)
    IN  <<x1 * y1 + (t \div Half), (t % Half) * Half + (low % Half)>>

(* x*y <= z*Scale, exactly (a product beyond 32 bits is larger than any z). *)
MulLeq(x, y, z) ==
    IF y >= Half /\ (x \div Half) > z \div (y \div Half) THEN FALSE
    ELSE LET p == MulQR(x, y) IN p[1] < z \/ (p[1] = z /\ p[2] = 0)

(* floor(x * Scale / y) for x >= 0, 0 < y < 2^30 and a quotient below 10^9,  *)
(* one decimal digit of the quotient at a time, most significant first.      *)
RECURSIVE DivDigits(_, _, _, _)
DivDigits(x, y, k, q) ==
    IF k < 0 THEN q
    ELSE LET step == 10^k
             d == CHOOSE t \in 0..9 :
                      /\ MulLeq(q + t * step, y, x)
                      /\ (t = 9 \/ ~MulLeq(q + (t + 1) * step, y, x))
         IN  DivDigits(x, y, k - 1, q + d * step)

(* x * y and x / y of two fixed-point numbers, truncated toward zero. *)
FMul(x, y) == Sign(x) * Sign(y) * MulQR(Abs(x), Abs(y))[1]
FDiv(x, y) == Sign(x) * Sign(y) * DivDigits(Abs(x), Abs(y), 8, 0)

(* a * b / c for a small integer ratio b/c, truncated. *)
MulRatio(a, b, c) == (a \div c) * b + ((a % c) * b) \div c

(* math.sqrt: the largest y with y*y <= x, one decimal digit at a time. *)
RECURSIVE SqrtDigits(_, _, _)
SqrtDigits(x, k, y) ==
    IF k < 0 THEN y
    ELSE LET step == 10^k
             d == CHOOSE t \in 0..9 :
                      /\ MulLeq(y + t * step, y + t * step, x)
                      /\ (t = 9 \/ ~MulLeq(y + (t + 1) * step, y + (t + 1) * step, x))
         IN  SqrtDigits(x, k - 1, y + d * step)

FSqrt(x) == SqrtDigits(x, 8, 0)

pi == 314159265

(* asin(y) for small y >= 0: y + y^3/6 + 3y^5/40 + ..., each term obtained   *)
(* from the one before, until the terms vanish.                              *)
RECURSIVE AsinSeries(_, _, _, _)
AsinSeries(term, y2, n, acc) ==
    IF term = 0 THEN acc
    ELSE LET odd  == 2 * n + 1
             next == MulRatio(FMul(term, y2), odd * odd, (odd + 1) * (odd + 2))
         IN  AsinSeries(next, y2, n + 1, acc + term)

(* math.acos on [0, 1]: with t = acos(x), sin(t/2) = sqrt((1 - x) / 2),      *)
(* cos(t/2) = sqrt((1 + x) / 2), sin(t/4) = sin(t/2) / sqrt(2 (1 + cos(t/2))) *)
(* and t = 4 asin(sin(t/4)).                                                 *)
AcosPos(x) ==
    LET s2 == FSqrt((Scale - x) \div 2)
        c2 == FSqrt((Scale + x) \div 2)
        s4 == FDiv(s2, FSqrt(2 * (Scale + c2)))
    IN  4 * AsinSeries(s4, FMul(s4, s4), 0, 0)

(* math.acos on [-1, 1]: acos(-x) = pi - acos(x). *)
FAcos(x) == IF x >= 0 THEN AcosPos(x) ELSE pi - AcosPos(-x)

----------------------------------------------------------------------------
(* Outcomes of a computation: a value, or a Python exception               *)

Ok(v) == [exc |-> "none", val |-> v]
Raise(e) == [exc |-> e, val |-> 0]

----------------------------------------------------------------------------
(* const.py: tank specifications                                           *)

(* n thousandths of a millimetre, as a length. *)
Milli(n) == n * (LenUnit \div 1000)

DefaultWallThickness == Milli(3175)

TankSpec(id, orientation, overall_length_mm, overall_diameter_mm) ==
    [id |-> id, orientation |-> orientation,
     overall_length_mm |-> overall_length_mm,
     overall_diameter_mm |-> overall_diameter_mm,
     wall_thickness_mm |-> DefaultWallThickness]

internal_diameter_mm(spec) == spec.overall_diameter_mm - (2 * spec.wall_thickness_mm)

radius_mm(spec) == internal_diameter_mm(spec) \div 2

side_length_mm(spec) ==
    IF spec.orientation = "vertical"
    THEN spec.overall_length_mm - (internal_diameter_mm(spec) \div 2)
    ELSE spec.overall_length_mm - spec.overall_diameter_mm

TankIds == {"20lb_v", "30lb_v", "40lb_v", "250gal_h", "500gal_h", "1000gal_h",
            "europe_6kg", "europe_11kg", "europe_14kg", "custom"}

TANK_SPECS ==
    [id \in TankIds |->
        CASE id = "20lb_v"      -> TankSpec(id, "vertical",   Milli(316000),  Milli(304800))
          [] id = "30lb_v"      -> TankSpec(id, "vertical",   Milli(422000),  Milli(304800))
          [] id = "40lb_v"      -> TankSpec(id, "vertical",   Milli(457000),  Milli(304800))
          [] id = "250gal_h"    -> TankSpec(id, "horizontal", Milli(2387600), Milli(762000))
          [] id = "500gal_h"    -> TankSpec(id, "horizontal", Milli(3022600), Milli(952500))
          [] id = "1000gal_h"   -> TankSpec(id, "horizontal", Milli(4877500), Milli(1041400))
          [] id = "europe_6kg"  -> TankSpec(id, "vertical",   Milli(340000),  Milli(240000))
          [] id = "europe_11kg" -> TankSpec(id, "vertical",   Milli(390000),  Milli(290000))
          [] id = "europe_14kg" -> TankSpec(id, "vertical",   Milli(430000),  Milli(290000))
          [] id = "custom"      -> TankSpec(id, "vertical",   Milli(300000),  Milli(300000))]

(* an unknown id falling back to the "custom" entry *)
TankSpecForCustom(tank_type) ==
    IF tank_type \in TankIds THEN TANK_SPECS[tank_type] ELSE TANK_SPECS["custom"]

(* TANK_SPECS.get(tank_type, TANK_SPECS["20lb_v"]) *)
TankSpecFor(tank_type) ==
    IF tank_type \in TankIds THEN TANK_SPECS[tank_type] ELSE TANK_SPECS["20lb_v"]

----------------------------------------------------------------------------
(* const.py: tank geometry                                                 *)

Hundred == 100 * PctUnit

(* max(0.0, min(100.0, 100.0 * fill_volume / max_volume)) *)
ClampedPercent(fill_volume, max_volume) ==
    IF max_volume = 0 THEN Raise("ZeroDivisionError")
    ELSE Ok(Max2(0, Min2(Hundred, FDiv(fill_volume, max_volume) * ((100 * PctUnit) \div Scale))))

(* pi * a * b * ((2/3 c) - c + depth + (c - depth)^3 / (3 c c)): the volume of *)
(* the hemi-ellipsoid cap filled to depth.                                     *)
CapFill(a, b, c, depth) ==
    FMul(FMul(FMul(pi, a), b),
         FMul(FDiv(2 * Scale, 3 * Scale), c) - c + depth
           + FDiv(FMul(FMul(c - depth, c - depth), c - depth), FMul(FMul(3 * Scale, c), c)))

(* the cylindrical region counted without the bottom cap below it *)
CylinderFillWithoutCap(hemi_ellipsoid_volume, fill_depth, ellipsoid_c, radius) ==
    FMul(FMul(FMul(fill_depth - ellipsoid_c, pi), radius), radius)

(* hemi_ellipsoid_volume + (fill_depth - ellipsoid_c) * pi * radius * radius *)
CylinderFill(hemi_ellipsoid_volume, fill_depth, ellipsoid_c, radius) ==
    hemi_ellipsoid_volume + FMul(FMul(FMul(fill_depth - ellipsoid_c, pi), radius), radius)

calculate_vertical(fill_depth, radius, side_length) ==
    LET ellipsoid_a == radius
        ellipsoid_b == radius
        ellipsoid_c == radius \div 2
        tank_height == side_length + ellipsoid_c
        hemi_ellipsoid_volume ==
            FMul(FMul(FMul(FMul(FDiv(2 * Scale, 3 * Scale), pi), ellipsoid_a), ellipsoid_b), ellipsoid_c)
        cylinder_volume == FMul(FMul(FMul(side_length, pi), radius), radius)
        max_volume == 2 * hemi_ellipsoid_volume + cylinder_volume
        Finish(fill_volume) ==
            IF fill_volume < 0 THEN Ok(0) ELSE ClampedPercent(fill_volume, max_volume)
    IN  IF fill_depth > tank_height THEN Ok(Hundred)
        ELSE IF 0 <= fill_depth /\ fill_depth <= ellipsoid_c
        THEN IF FMul(FMul(3 * Scale, ellipsoid_c), ellipsoid_c) = 0
             THEN Raise("ZeroDivisionError")
             ELSE Finish(CapFill(ellipsoid_a, ellipsoid_b, ellipsoid_c, fill_depth))
        ELSE IF ellipsoid_c <= fill_depth /\ fill_depth <= ellipsoid_c + side_length
        THEN Finish(CylinderFill(hemi_ellipsoid_volume, fill_depth, ellipsoid_c, radius))
        ELSE IF ellipsoid_c + side_length <= fill_depth /\ fill_depth <= tank_height
        THEN IF FMul(FMul(3 * Scale, ellipsoid_c), ellipsoid_c) = 0
             THEN Raise("ZeroDivisionError")
             ELSE Finish(max_volume
                           - CapFill(ellipsoid_a, ellipsoid_b, ellipsoid_c, tank_height - fill_depth))
        ELSE Ok(0)

(* the spherical cap with 2 * radius where the formula has 3 * radius *)
SphericalCapFillShort(fill_depth, radius) ==
    FMul(FMul(FMul(FDiv(pi, 3 * Scale), fill_depth), fill_depth), 2 * radius - fill_depth)

(* (pi / 3.0) * fill_depth * fill_depth * (3 * radius - fill_depth) *)
SphericalCapFill(fill_depth, radius) ==
    FMul(FMul(FMul(FDiv(pi, 3 * Scale), fill_depth), fill_depth), 3 * radius - fill_depth)

calculate_horizontal(fill_depth, radius, side_length) ==
    LET spherical_volume ==
            FMul(FMul(FMul(FMul(FDiv(4 * Scale, 3 * Scale), pi), radius), radius), radius)
        cylinder_volume == FMul(FMul(FMul(side_length, pi), radius), radius)
        max_volume == spherical_volume + cylinder_volume
        fill_spherical == SphericalCapFill(fill_depth, radius)
        cosine == FDiv(radius - fill_depth, radius)
        fill_cylinder ==
            FMul(side_length,
                 FMul(FMul(radius, radius), FAcos(cosine))
                   - FMul(radius - fill_depth,
                          FSqrt(Max2(0, FMul(2 * radius, fill_depth) - FMul(fill_depth, fill_depth)))))
        fill_volume == fill_spherical + fill_cylinder
    IN  IF fill_depth > 2 * radius THEN Ok(Hundred)
        ELSE IF fill_depth < 0 THEN Ok(0)
        ELSE IF radius = 0 THEN Raise("ZeroDivisionError")
        ELSE IF cosine > Scale \/ cosine < -Scale THEN Raise("ValueError")
        ELSE ClampedPercent(fill_volume, max_volume)

(* the measured depth taken as the fill depth, the wall not subtracted *)
calculate_tank_percentage_no_wall(tank_type, measured_depth_mm) ==
    LET spec == TankSpecFor(tank_type)
        fill_depth == measured_depth_mm
        radius == radius_mm(spec)
        side_length == side_length_mm(spec)
    IN  IF fill_depth < 0 THEN Ok(0)
        ELSE IF spec.orientation = "vertical"
        THEN calculate_vertical(fill_depth, radius, side_length)
        ELSE calculate_horizontal(fill_depth, radius, side_length)

calculate_tank_percentage(tank_type, measured_depth_mm) ==
    LET spec == TankSpecFor(tank_type)
        fill_depth == measured_depth_mm - spec.wall_thickness_mm
        radius == radius_mm(spec)
        side_length == side_length_mm(spec)
    IN  IF fill_depth < 0 THEN Ok(0)
        ELSE IF spec.orientation = "vertical"
        THEN calculate_vertical(fill_depth, radius, side_length)
        ELSE calculate_horizontal(fill_depth, radius, side_length)

----------------------------------------------------------------------------
(* const.py: medium types and temperature compensation                     *)

MediumType == {"propane", "air", "fresh_water", "waste_water", "black_water",
               "live_well", "gasoline", "diesel", "lng", "oil", "hydraulic_oil",
               "custom"}

(* A coefficient is written in units of 10^-12 as <<hi, lo>>, standing for *)
(* hi * 10^4 + lo: 0.7373417462 is <<73734174, 6200>>.  The first table is  *)
(* the propane row with a decimal place of its slope lost (-0.02822 for    *)
(* -0.002822).                                                              *)
PropaneCoefficientsSlipped == << <<57304500, 0>>, <<-2822000, 0>>, <<-535, 0>> >>

PropaneCoefficients == << <<57304500, 0>>, <<-282200, 0>>, <<-535, 0>> >>
AirCoefficients     == << <<15309600, 0>>, <<32700, 0>>, <<-29, -4000>> >>
WaterCoefficients   == << <<60059200, 0>>, <<312400, 0>>, <<-1368, 0>> >>
FuelCoefficients    == << <<73734174, 6200>>, <<-197822, -9885>>, <<202, 1620>> >>

COMPENSATION_COEFFICIENTS ==
    [m \in MediumType |->
        CASE m = "propane" -> PropaneCoefficients
          [] m = "air" -> AirCoefficients
          [] m \in {"fresh_water", "waste_water", "live_well", "black_water"} -> WaterCoefficients
          [] m \in {"gasoline", "diesel", "lng", "oil", "hydraulic_oil"} -> FuelCoefficients
          [] m = "custom" -> PropaneCoefficients]

(* factor = c0 + (c1 * temp_raw) + (c2 * temp_raw * temp_raw), in units of  *)
(* 10^-12, as <<hi, lo>> with 0 <= lo < 10^4 (hi carries the sign).         *)
CompensationFactor(coefficients, temp_raw) ==
    LET c0 == coefficients[1]
        c1 == coefficients[2]
        c2 == coefficients[3]
        hi == c0[1] + (c1[1] * temp_raw) + (c2[1] * temp_raw * temp_raw)
        lo == c0[2] + (c1[2] * temp_raw) + (c2[2] * temp_raw * temp_raw)
    IN  <<hi + (lo \div Half), lo % Half>>

FactorIsNegative(factor) == factor[1] < 0

(* The magnitude of a factor, in the same form. *)
FactorAbs(factor) ==
    IF factor[1] >= 0 THEN factor
    ELSE IF factor[2] = 0 THEN <<-factor[1], 0>>
    ELSE <<-factor[1] - 1, Half - factor[2]>>

(* round(distance_raw_mm * factor) in place of int(...) *)
RoundedProduct(distance_raw_mm, factor) ==
    LET mag == FactorAbs(factor)
        top == MulQR(distance_raw_mm, mag[1])
        rest == top[2] + (distance_raw_mm * mag[2]) \div Half
        whole == top[1] + (rest + Scale \div 2) \div Scale
    IN  IF FactorIsNegative(factor) THEN -whole ELSE whole

(* int(distance_raw_mm * factor): the product truncated toward zero. *)
TruncatedProduct(distance_raw_mm, factor) ==
    LET mag == FactorAbs(factor)
        top == MulQR(distance_raw_mm, mag[1])
        whole == top[1] + (top[2] + (distance_raw_mm * mag[2]) \div Half) \div Scale
    IN  IF FactorIsNegative(factor) THEN -whole ELSE whole

apply_temperature_compensation(distance_raw_mm, temp_raw, medium_type) ==
    IF medium_type \notin DOMAIN COMPENSATION_COEFFICIENTS THEN Raise("KeyError")
    ELSE Ok(TruncatedProduct(distance_raw_mm,
                             CompensationFactor(COMPENSATION_COEFFICIENTS[medium_type], temp_raw)))

----------------------------------------------------------------------------
(* parser.py: the advertisement decoder                                    *)

(* the length check off by one *)
MinPayloadOffByOne == 10 + 1

MIN_MANUFACTURER_PAYLOAD == 10

SyncBytes == {3, 4, 5, 8, 9, 10, 11, 12}

SYNC_BYTE_TO_MODEL ==
    [b \in SyncBytes |->
        CASE b = 3 -> "Pro Plus (M1015)"
          [] b = 4 -> "Pro Check (M1017)"
          [] b = 5 -> "Pro 200"
          [] b = 8 -> "Pro H2O"
          [] b = 9 -> "Pro H2O Plus"
          [] b = 10 -> "Lippert BottleCheck"
          [] b = 11 -> "TD40"
          [] b = 12 -> "TD200"]

(* a & b and a | b, bit by bit. *)
RECURSIVE BitAnd(_, _)
BitAnd(a, b) ==
    IF a = 0 \/ b = 0 THEN 0
    ELSE 2 * BitAnd(a \div 2, b \div 2) + (IF a % 2 = 1 /\ b % 2 = 1 THEN 1 ELSE 0)

RECURSIVE BitOr(_, _)
BitOr(a, b) ==
    IF a = 0 THEN b
    ELSE IF b = 0 THEN a
    ELSE 2 * BitOr(a \div 2, b \div 2) + (IF a % 2 = 1 \/ b % 2 = 1 THEN 1 ELSE 0)

ShiftLeft(a, n) == a * 2^n
ShiftRight(a, n) == a \div 2^n

(* ((high << 8) | low) & 0x3FFF, with the mask one bit too wide *)
DistanceRaw15Bits(low, high) == BitAnd(BitOr(ShiftLeft(high, 8), low), 32767)

(* ((high << 8) | low) & 0x3FFF *)
DistanceRaw(low, high) == BitAnd(BitOr(ShiftLeft(high, 8), low), 16383)

(* manufacturer_data[2] taken whole, the mask left out *)
TempRawUnmasked(byte2) == byte2

(* manufacturer_data[2] & 0x7F *)
TempRaw(byte2) == BitAnd(byte2, 127)

(* (high >> 6) & 0x03 *)
QualityRaw(high) == BitAnd(ShiftRight(high, 6), 3)

(* int(x * 100.0) in place of round(x * 100.0) *)
TruncTimes100(x) == x \div (Scale \div 100)

(* Python's round(x * 100.0) of a fixed-point x: the nearest integer, a tie *)
(* going to the even one.                                                   *)
RoundTimes100(x) ==
    LET unit == Scale \div 100
        q == x \div unit
        r == x % unit
    IN  IF 2 * r < unit THEN q
        ELSE IF 2 * r > unit THEN q + 1
        ELSE IF q % 2 = 0 THEN q ELSE q + 1

(* round((quality_raw / 3.0) * 100.0) *)
QualityPercent(quality_raw) == RoundTimes100(FDiv(quality_raw * Scale, 3 * Scale))

(* battery_voltage = battery_raw / 32.0;                                     *)
(* round(((battery_voltage - 2.2) / 0.65) * 100.0), in exact arithmetic. The  *)
(* quotient is a half-integer for battery_raw = 21, 47, 73, ...; 73 (12.5,   *)
(* rounded to 12 by the doubles as by the tie rule) is the only one whose    *)
(* rounding survives the clamp to [0, 100].                                  *)
BatteryPercentRaw(battery_raw) ==
    LET battery_voltage == battery_raw * (Scale \div 32)
    IN  RoundTimes100(FDiv(battery_voltage - 22 * (Scale \div 10), 65 * (Scale \div 100)))

(* the clamp left out *)
BatteryPercentUnclamped(battery_raw) == BatteryPercentRaw(battery_raw)

(* max(0, min(100, battery_percent)) *)
BatteryPercent(battery_raw) == Max2(0, Min2(100, BatteryPercentRaw(battery_raw)))

NoReading == [kind |-> "None"]
Raised(e) == [kind |-> "exception", exc |-> e]

(* model.py: MopekaSensorData(...) and __post_init__, which stamps the record *)
(* with time.time() when no timestamp was given.                              *)
MopekaSensorData(fields, now) ==
    [f \in DOMAIN fields \cup {"kind", "timestamp"} |->
        CASE f = "kind" -> "reading"
          [] f = "timestamp" -> now
          [] OTHER -> fields[f]]

(* manufacturer_data[i], 0-indexed as in the source. *)
Byte(data, i) == data[i + 1]

parse_mopeka_data(address, data, medium, tank, now) ==
    IF Len(data) < MIN_MANUFACTURER_PAYLOAD THEN NoReading
    ELSE IF Byte(data, 0) \notin DOMAIN SYNC_BYTE_TO_MODEL THEN NoReading
    ELSE LET sync_byte == Byte(data, 0)
             battery_raw == Byte(data, 1)
             temp_raw == TempRaw(Byte(data, 2))
             temp_c == temp_raw - 40
             low == Byte(data, 3)
             high == Byte(data, 4)
             distance_raw_mm == DistanceRaw(low, high)
             quality_raw == QualityRaw(high)
             quality_percent == QualityPercent(quality_raw)
             accel_x == Byte(data, 8)
             accel_y == Byte(data, 9)
             battery_percent == BatteryPercent(battery_raw)
             compensated_mm == apply_temperature_compensation(distance_raw_mm, temp_raw, medium)
             tank_percent == calculate_tank_percentage(tank, compensated_mm.val * LenUnit)
         IN  IF compensated_mm.exc # "none" THEN Raised(compensated_mm.exc)
             ELSE IF tank_percent.exc # "none" THEN Raised(tank_percent.exc)
             ELSE MopekaSensorData(
                    [mac_address |-> address,
                     model_id |-> sync_byte,
                     model_name |-> SYNC_BYTE_TO_MODEL[sync_byte],
                     battery_percent |-> battery_percent,
                     distance_raw_mm |-> distance_raw_mm,
                     compensated_distance_mm |-> compensated_mm.val,
                     temperature_c |-> temp_c,
                     quality_percent |-> quality_percent,
                     quality_raw |-> quality_raw,
                     accelerometer_x |-> accel_x,
                     accelerometer_y |-> accel_y,
                     tank_level_percent |-> tank_percent.val,
                     medium_type |-> medium,
                     tank_type |-> tank],
                    now)

----------------------------------------------------------------------------
(* State                                                                   *)

VARIABLES
    pc,                 \* where the caller stands: before or after the call
    manufacturer_data,  \* parse_mopeka_data: the payload, a sequence of bytes
    medium_type,        \* parse_mopeka_data: the configured medium
    tank_type,          \* the configured tank type (any string)
    parsed,             \* what parse_mopeka_data returned
    measured_depth_mm,  \* calculate_tank_percentage: the depth passed in
    tank_result,        \* what calculate_tank_percentage returned
    prev_depth_mm,      \* the depth of the call before
    prev_result,        \* and what it returned
    geometry,           \* _calculate_vertical/_calculate_horizontal: the arguments
    now,                \* time.monotonic(), in seconds
    minimum_quality,    \* MopekaCoordinator.minimum_quality
    data,               \* MopekaCoordinator.data: the held reading, or None
    last_seen_monotonic,\* MopekaCoordinator._last_seen_monotonic
    unsub_ble,          \* MopekaCoordinator._unsub_ble: a registration, or None
    callbacks,          \* bluetooth: the registrations of this coordinator subscribed
    unsub_calls,        \* per registration, how often its unsubscribe function ran
    last_service_info,  \* bluetooth: the last advertisement seen from the address
    notified,           \* whether the step just taken updated the listeners
    event               \* the operation just performed, with its argument

geomVars == <<geometry>>
coordVars == <<now, minimum_quality, data, last_seen_monotonic, unsub_ble, callbacks,
               unsub_calls, last_service_info, notified, event>>

vars == <<pc, manufacturer_data, medium_type, tank_type, parsed,
          measured_depth_mm, tank_result, prev_depth_mm, prev_result,
          geometry, now, minimum_quality, data, last_seen_monotonic, unsub_ble,
          callbacks, unsub_calls, last_service_info, notified, event>>

None == [kind |-> "None"]
NoGeometry == [function |-> "none", fill_depth |-> 0, radius |-> 0, side_length |-> 0]
NoEvent == [op |-> "none"]

(* The coordinator as __init__ leaves it, before any call. *)
CoordinatorCreated ==
    /\ now = 0
    /\ data = None
    /\ last_seen_monotonic = None
    /\ unsub_ble = None
    /\ callbacks = {}
    /\ unsub_calls = <<>>
    /\ last_service_info = None
    /\ notified = FALSE
    /\ event = NoEvent

Unset == [exc |-> "unset", val |-> 0]
NotCalled == [kind |-> "pending"]

Address == "C4:11:22:33:44:55"
Clock == 1000

----------------------------------------------------------------------------
(* The decoder, called on payloads drawn from bounded families             *)

MaxLen == 11

(* The first n bytes of a 12-byte advertisement payload. *)
Frame(n, b0, b1, b2, b3, b4) ==
    SubSeq(<<b0, b1, b2, b3, b4, 165, 90, 195, 17, 254, 126, 1>>, 1, n)

Bytes == 0..255
UnknownTankTypes == {"", "5gal_x"}
TankTypes == TankIds \cup UnknownTankTypes

(* every length and every sync byte *)
LengthFamily ==
    {<<Frame(n, b0, 100, 60, 16, 64), "propane", "20lb_v">> : n \in 0..MaxLen, b0 \in Bytes}

(* every battery byte *)
BatteryFamily ==
    {<<Frame(10, 4, b1, 60, 16, 64), "propane", "20lb_v">> : b1 \in Bytes}

(* every high distance byte against low bytes around the bit boundaries *)
DistanceFamily ==
    {<<Frame(10, 3, 90, 60, b3, b4), "propane", "40lb_v">> :
        b3 \in {0, 1, 16, 127, 128, 255}, b4 \in Bytes}

(* every medium and temperature against a few distances *)
TemperatureFamily ==
    {<<Frame(10, 8, 90, b2, d[1], d[2]), m, "250gal_h">> :
        b2 \in (0..127) \cup {128, 200, 255}, m \in MediumType,
        d \in {<<0, 0>>, <<1, 0>>, <<231, 3>>, <<255, 255>>}}

(* every tank type, known or not, against distances over its whole range *)
TankFamily ==
    {<<Frame(MaxLen, 12, 80, b2, 0, b4), m, t>> :
        b2 \in {0, 167}, m \in {"propane", "air", "fresh_water", "oil"},
        t \in TankTypes, b4 \in {0, 1, 2, 3, 5, 8, 13, 21, 34, 63}}

ParseInputs ==
    LengthFamily \cup BatteryFamily \cup DistanceFamily \cup TemperatureFamily \cup TankFamily

InitParse ==
    /\ pc = "call"
    /\ \E input \in ParseInputs :
          /\ manufacturer_data = input[1]
          /\ medium_type = input[2]
          /\ tank_type = input[3]
    /\ parsed = NotCalled
    /\ measured_depth_mm = 0
    /\ tank_result = Unset
    /\ prev_depth_mm = 0
    /\ prev_result = Unset
    /\ geometry = NoGeometry
    /\ minimum_quality = 0
    /\ CoordinatorCreated

Parse ==
    /\ pc = "call"
    /\ parsed' = parse_mopeka_data(Address, manufacturer_data, medium_type, tank_type, Clock)
    /\ pc' = "returned"
    /\ UNCHANGED <<manufacturer_data, medium_type, tank_type,
                   measured_depth_mm, tank_result, prev_depth_mm, prev_result>>
    /\ UNCHANGED <<geomVars, coordVars>>

NextParse == Parse

SpecParse == InitParse /\ [][NextParse]_vars

----------------------------------------------------------------------------
(* The tank-level function applied to rising depths                        *)
(*                                                                         *)
(* calculate_tank_percentage is called for one tank type with a sequence    *)
(* of increasing measured depths; the previous depth and result are kept    *)
(* so that consecutive results can be compared.                             *)

GridSteps == 24
MaxJump == 3

(* The largest fill depth of the tank: the height the code computes for a  *)
(* vertical tank, the diameter for a horizontal one.                        *)
TankBound(tank) ==
    LET spec == TankSpecFor(tank)
    IN  IF spec.orientation = "vertical"
        THEN side_length_mm(spec) + radius_mm(spec) \div 2
        ELSE 2 * radius_mm(spec)

(* Measured depths tried for a tank: whole millimetres (what the decoder    *)
(* produces) from 0 to beyond the bound, and the depths that put the fill   *)
(* depth on a region boundary, with one millimetre to either side.          *)
DepthGrid(tank) ==
    LET spec == TankSpecFor(tank)
        wall == spec.wall_thickness_mm
        r == radius_mm(spec)
        step == ((TankBound(tank) \div LenUnit) \div GridSteps) + 1
        marks == {0, r \div 2, r, TankBound(tank)}
    IN  {k * step * LenUnit : k \in 0..(GridSteps + 1)}
          \cup {wall + m + e : m \in marks, e \in {-LenUnit, 0, LenUnit}}

InitTank ==
    /\ pc = "idle"
    /\ tank_type \in TankTypes
    /\ manufacturer_data = <<>>
    /\ medium_type = "propane"
    /\ parsed = NotCalled
    /\ measured_depth_mm = 0
    /\ tank_result = Unset
    /\ prev_depth_mm = 0
    /\ prev_result = Unset
    /\ geometry = NoGeometry
    /\ minimum_quality = 0
    /\ CoordinatorCreated

Calculate ==
    \E d \in DepthGrid(tank_type) :
        /\ pc = "idle" \/ d > measured_depth_mm
        /\ Cardinality({g \in DepthGrid(tank_type) :
                           (pc = "idle" \/ g > measured_depth_mm) /\ g <= d}) <= MaxJump
        /\ prev_depth_mm' = measured_depth_mm
        /\ prev_result' = tank_result
        /\ measured_depth_mm' = d
        /\ tank_result' = calculate_tank_percentage(tank_type, d)
        /\ pc' = "calculated"
        /\ UNCHANGED <<manufacturer_data, medium_type, tank_type, parsed>>
        /\ UNCHANGED <<geomVars, coordVars>>

NextTank == Calculate

SpecTank == InitTank /\ [][NextTank]_vars

----------------------------------------------------------------------------
(* The two geometry functions applied to arbitrary dimensions              *)
(*                                                                         *)
(* _calculate_vertical and _calculate_horizontal take the radius and the    *)
(* side length as arguments; here they are called with dimensions that      *)
(* include zero, which no entry of TANK_SPECS has.                          *)

GeometryFunctions == {"_calculate_vertical", "_calculate_horizontal"}
GeometryRadii == {0, 149 * LenUnit + 22500, 381 * LenUnit}
GeometryLengths == {0, 100 * LenUnit, 300 * LenUnit}
GeometryDepths == {0, 1 * LenUnit, 10 * LenUnit, 25 * LenUnit, 100 * LenUnit,
                   101 * LenUnit, 300 * LenUnit, 700 * LenUnit}

InitGeometry ==
    /\ pc = "call"
    /\ geometry \in [function : GeometryFunctions, fill_depth : GeometryDepths,
                      radius : GeometryRadii, side_length : GeometryLengths]
    /\ manufacturer_data = <<>>
    /\ medium_type = "propane"
    /\ tank_type = "custom"
    /\ parsed = NotCalled
    /\ measured_depth_mm = 0
    /\ tank_result = Unset
    /\ prev_depth_mm = 0
    /\ prev_result = Unset
    /\ minimum_quality = 0
    /\ CoordinatorCreated

CalculateGeometry ==
    /\ pc = "call"
    /\ tank_result' =
          IF geometry.function = "_calculate_vertical"
          THEN calculate_vertical(geometry.fill_depth, geometry.radius, geometry.side_length)
          ELSE calculate_horizontal(geometry.fill_depth, geometry.radius, geometry.side_length)
    /\ pc' = "returned"
    /\ UNCHANGED <<manufacturer_data, medium_type, tank_type, parsed,
                   measured_depth_mm, prev_depth_mm, prev_result>>
    /\ UNCHANGED <<geomVars, coordVars>>

NextGeometry == CalculateGeometry

SpecGeometry == InitGeometry /\ [][NextGeometry]_vars

----------------------------------------------------------------------------
(* coordinator.py: MopekaCoordinator                                       *)
(*                                                                         *)
(* Optional values are records with a kind: None, or [kind |-> "float"],    *)
(* [kind |-> "bytes"], [kind |-> "unsub"], [kind |-> "service_info"].       *)

MANUFACTURER_ID == 89
DATA_HEALTH_TIMEOUT_SECONDS == 120
OFFLINE_TIMEOUT_SECONDS == 30 * 60

Float(t) == [kind |-> "float", val |-> t]
BytesOf(payload) == [kind |-> "bytes", bytes |-> payload]
Unsub(id) == [kind |-> "unsub", id |-> id]
ServiceInfo(address, manufacturer_data_map) ==
    [kind |-> "service_info", address |-> address, manufacturer_data |-> manufacturer_data_map]

(* manufacturer_data_map.get(MANUFACTURER_ID) *)
extract_mopeka_manufacturer_payload(manufacturer_data_map) ==
    IF MANUFACTURER_ID \in DOMAIN manufacturer_data_map
    THEN BytesOf(manufacturer_data_map[MANUFACTURER_ID])
    ELSE None

(* the quality filter left out *)
NeverBelowMinimum(reading, minimum) == FALSE

(* parsed.quality_percent < self.minimum_quality *)
BelowMinimumQuality(reading, minimum) == reading.quality_percent < minimum

(* What a coordinator holds: the fields _handle_service_info reads and writes, *)
(* and whether the call updated the listeners.                                 *)
Held(reading, last_seen, updated) ==
    [data |-> reading, last_seen_monotonic |-> last_seen, notified |-> updated]

(* _handle_service_info once the payload is decoded: the decoder's           *)
(* exception leaves the call before anything is written; None and a reading   *)
(* below the minimum quality return early; async_set_updated_data stores the  *)
(* reading and updates the listeners.                                         *)
AcceptDecoded(self, reading, minimum, t) ==
    IF reading.kind = "exception" THEN self
    ELSE IF reading = NoReading THEN self
    ELSE IF BelowMinimumQuality(reading, minimum) THEN self
    ELSE Held(reading, Float(t), TRUE)

(* _handle_service_info at time t: the payload is decoded once, and the     *)
(* reading it gives is then looked at.                                       *)
handle_service_info(self, service_info, minimum, medium, tank, t) ==
    IF extract_mopeka_manufacturer_payload(service_info.manufacturer_data) = None
    THEN self
    ELSE CHOOSE after \in
            {AcceptDecoded(self, reading, minimum, t) :
                reading \in {parse_mopeka_data(
                    service_info.address,
                    extract_mopeka_manufacturer_payload(service_info.manufacturer_data).bytes,
                    medium, tank, Clock + t)}} : TRUE

(* the last-seen time counted as recent for one second longer *)
data_healthy_inclusive(last_seen, t) ==
    IF last_seen = None THEN FALSE
    ELSE (t - last_seen.val) <= DATA_HEALTH_TIMEOUT_SECONDS

(* MopekaCoordinator.data_healthy *)
data_healthy(last_seen, t) ==
    IF last_seen = None THEN FALSE
    ELSE (t - last_seen.val) < DATA_HEALTH_TIMEOUT_SECONDS

(* the offline timeout of 30 minutes compared as 30 seconds *)
available_for_seconds(last_seen, t) ==
    IF last_seen = None THEN FALSE
    ELSE (t - last_seen.val) < 30

(* MopekaCoordinator.available *)
available(last_seen, t) ==
    IF last_seen = None THEN FALSE
    ELSE (t - last_seen.val) < OFFLINE_TIMEOUT_SECONDS

(* MopekaCoordinator.last_seen_age *)
last_seen_age(last_seen, t) ==
    IF last_seen = None THEN None
    ELSE Float(t - last_seen.val)

(* MopekaSensor.available *)
sensor_available(reading, last_seen, t) ==
    available(last_seen, t) /\ reading # None

----------------------------------------------------------------------------
(* The coordinator under advertisements, refreshes, start, stop and time   *)

MaxRegistrations == 2

(* The instants the clock is read at: they put the age of an accepted       *)
(* advertisement on both sides of the two timeouts.                         *)
Instants == {0, 60, 120, 1800}

OtherVendorInfo == ServiceInfo(Address, [v \in {76} |-> Frame(10, 3, 90, 60, 100, 192)])
ShortPayloadInfo == ServiceInfo(Address, [v \in {MANUFACTURER_ID} |-> Frame(5, 3, 90, 60, 100, 192)])
LowQualityInfo == ServiceInfo(Address, [v \in {MANUFACTURER_ID} |-> Frame(10, 3, 90, 60, 5, 64)])
GoodQualityInfo == ServiceInfo(Address, [v \in {MANUFACTURER_ID} |-> Frame(11, 4, 100, 60, 200, 195)])
Advertisements == {OtherVendorInfo, ShortPayloadInfo, LowQualityInfo, GoodQualityInfo}

(* The advertisement handed to each of k subscribed callbacks in turn. *)
RECURSIVE Deliver(_, _, _)
Deliver(self, service_info, k) ==
    IF k = 0 THEN self
    ELSE Deliver(handle_service_info(self, service_info, minimum_quality,
                                     medium_type, tank_type, now),
                 service_info, k - 1)

InitCoord ==
    /\ pc = "idle"
    /\ manufacturer_data = <<>>
    /\ medium_type = "propane"
    /\ tank_type = "20lb_v"
    /\ parsed = NotCalled
    /\ measured_depth_mm = 0
    /\ tank_result = Unset
    /\ prev_depth_mm = 0
    /\ prev_result = Unset
    /\ geometry = NoGeometry
    /\ minimum_quality \in {0, 50}
    /\ CoordinatorCreated

(* bluetooth sees an advertisement of the address and calls every           *)
(* subscribed _ble_callback, which calls _handle_service_info.              *)
Advertise ==
    \E service_info \in Advertisements :
        \E after \in {Deliver(Held(data, last_seen_monotonic, FALSE), service_info,
                                Cardinality(callbacks))} :
            /\ last_service_info' = service_info
            /\ data' = after.data
            /\ last_seen_monotonic' = after.last_seen_monotonic
            /\ notified' = after.notified
            /\ event' = [op |-> "advertisement"]
            /\ UNCHANGED <<now, minimum_quality, unsub_ble, callbacks, unsub_calls>>

(* async_start: register the callback, keep its unsubscribe function, then  *)
(* replay bluetooth's last advertisement of the address, if any.            *)
AsyncStart ==
    /\ Len(unsub_calls) < MaxRegistrations
    /\ \E id \in {Len(unsub_calls) + 1},
          after \in {IF last_service_info = None
                     THEN Held(data, last_seen_monotonic, FALSE)
                     ELSE handle_service_info(Held(data, last_seen_monotonic, FALSE),
                                              last_service_info, minimum_quality,
                                              medium_type, tank_type, now)} :
           /\ unsub_ble' = Unsub(id)
           /\ callbacks' = callbacks \cup {id}
           /\ unsub_calls' = Append(unsub_calls, 0)
           /\ data' = after.data
           /\ last_seen_monotonic' = after.last_seen_monotonic
           /\ notified' = after.notified
    /\ event' = [op |-> "async_start"]
    /\ UNCHANGED <<now, minimum_quality, last_service_info>>

(* async_stop: call the kept unsubscribe function, if any, and forget it. *)
AsyncStop ==
    /\ IF unsub_ble # None
       THEN /\ callbacks' = callbacks \ {unsub_ble.id}
            /\ unsub_calls' = [unsub_calls EXCEPT ![unsub_ble.id] = @ + 1]
            /\ unsub_ble' = None
       ELSE UNCHANGED <<callbacks, unsub_calls, unsub_ble>>
    /\ notified' = FALSE
    /\ event' = [op |-> "async_stop"]
    /\ UNCHANGED <<now, minimum_quality, data, last_seen_monotonic, last_service_info>>

(* The periodic refresh: _async_update_data returns self.data, which the   *)
(* update coordinator stores again before it updates the listeners.        *)
Refresh ==
    /\ data' = data
    /\ notified' = TRUE
    /\ event' = [op |-> "refresh"]
    /\ UNCHANGED <<now, minimum_quality, last_seen_monotonic, unsub_ble, callbacks,
                   unsub_calls, last_service_info>>

(* time.monotonic() moves on to a later instant. *)
Tick ==
    \E t \in Instants :
        /\ t > now
        /\ now' = t
        /\ notified' = FALSE
        /\ event' = [op |-> "tick"]
        /\ UNCHANGED <<minimum_quality, data, last_seen_monotonic, unsub_ble, callbacks,
                       unsub_calls, last_service_info>>

NextCoord ==
    /\ \/ Advertise
       \/ AsyncStart
       \/ AsyncStop
       \/ Refresh
       \/ Tick
    /\ UNCHANGED <<pc, manufacturer_data, medium_type, tank_type, parsed,
                   measured_depth_mm, tank_result, prev_depth_mm, prev_result, geomVars>>

SpecCoord == InitCoord /\ [][NextCoord]_vars

----------------------------------------------------------------------------
(* Claims about the decoder (checked under SpecParse)                      *)

Returned == pc = "returned"
GotReading == pc = "returned" /\ parsed.kind = "reading"
PayloadByte(i) == manufacturer_data[i + 1]
TempRawOfPayload == PayloadByte(2) % 128
DistanceOfPayload == (PayloadByte(3) + 256 * PayloadByte(4)) % 16384

(* C1: parse_mopeka_data returns None exactly when the payload is shorter   *)
(* than 10 bytes or byte 0 is not one of the eight sync bytes; otherwise,   *)
(* for every medium and every tank_type string, it returns a reading and    *)
(* raises nothing.                                                          *)
C1_NoneExactlyWhenMalformed ==
    Returned =>
        IF Len(manufacturer_data) < 10
           \/ manufacturer_data[1] \notin {3, 4, 5, 8, 9, 10, 11, 12}
        THEN parsed = NoReading
        ELSE parsed.kind = "reading"

C1_Witness ==
    /\ GotReading
    /\ Len(manufacturer_data) = 10
    /\ PayloadByte(0) = 3

(* C2: every reading has quality_raw in 0..3, battery_percent in 0..100,    *)
(* distance_raw_mm in 0..16383, temperature_c = (byte 2 & 0x7F) - 40 in     *)
(* -40..87, and model_id = byte 0, a key of the model table.                *)
C2_FieldRanges ==
    GotReading =>
        /\ parsed.quality_raw \in 0..3
        /\ parsed.battery_percent \in 0..100
        /\ parsed.distance_raw_mm \in 0..16383
        /\ parsed.temperature_c = TempRawOfPayload - 40
        /\ parsed.temperature_c \in (-40)..87
        /\ parsed.model_id = PayloadByte(0)
        /\ parsed.model_id \in {3, 4, 5, 8, 9, 10, 11, 12}
        /\ parsed.model_name = SYNC_BYTE_TO_MODEL[parsed.model_id]

C2_Witness ==
    /\ GotReading
    /\ PayloadByte(1) = 255
    /\ parsed.battery_percent = 100

(* C3: distance_raw_mm = (b3 + 256 b4) mod 16384, quality_raw = b4 div 64,  *)
(* quality_percent is 0, 33, 67, 100 for quality_raw 0, 1, 2, 3; b3 = 0x10, *)
(* b4 = 0x40 gives distance 16, quality_raw 1, quality_percent 33.          *)
C3_DistanceAndQuality ==
    GotReading =>
        /\ parsed.distance_raw_mm = DistanceOfPayload
        /\ parsed.quality_raw = PayloadByte(4) \div 64
        /\ parsed.quality_percent = <<0, 33, 67, 100>>[parsed.quality_raw + 1]
        /\ (PayloadByte(3) = 16 /\ PayloadByte(4) = 64) =>
              /\ parsed.distance_raw_mm = 16
              /\ parsed.quality_raw = 1
              /\ parsed.quality_percent = 33

C3_Witness ==
    /\ GotReading
    /\ PayloadByte(3) = 255
    /\ PayloadByte(4) = 191
    /\ parsed.distance_raw_mm = 16383
    /\ parsed.quality_raw = 2

(* C8: battery_percent is the nearest integer to                            *)
(* (battery_raw/32 - 2.2)/0.65*100 = (625 battery_raw - 44000)/130, clamped *)
(* into [0, 100]; it is non-decreasing in battery_raw; raw 0 gives 0, raw   *)
(* 100 (142 before the clamp) and raw 255 give 100.                         *)
C8_BatteryPercent ==
    GotReading =>
        LET raw == PayloadByte(1)
            x == 625 * raw - 44000
            p == parsed.battery_percent
        IN  /\ p \in 0..100
            /\ (p \in 1..99) => 2 * Abs(130 * p - x) <= 130
            /\ (p = 0) => 2 * x <= 130
            /\ (p = 100) => 2 * x >= 2 * 130 * 100 - 130
            /\ (raw > 0) => BatteryPercent(raw - 1) <= p
            /\ (raw = 0) => p = 0
            /\ (raw = 100) => (p = 100 /\ BatteryPercentRaw(raw) = 142)
            /\ (raw = 255) => p = 100

C8_Witness ==
    /\ GotReading
    /\ PayloadByte(1) = 73
    /\ parsed.battery_percent = 12

(* The product distance * factor, by long multiplication in base 10^4, cut  *)
(* to its integer part (factor >= 0 given as <<hi, lo>>).                   *)
WholePartOfProduct(distance, factor) ==
    LET p0 == distance * factor[2]
        p1 == distance * (factor[1] % Half) + (p0 \div Half)
        p2 == distance * (factor[1] \div Half) + (p1 \div Half)
    IN  p2 \div Half

(* The first four decimals of the product's fractional part. *)
FractionOfProduct(distance, factor) ==
    LET p0 == distance * factor[2]
        p1 == distance * (factor[1] % Half) + (p0 \div Half)
        p2 == distance * (factor[1] \div Half) + (p1 \div Half)
    IN  p2 % Half

WaterLike == {"fresh_water", "waste_water", "black_water", "live_well"}
LiquidFuel == {"gasoline", "diesel", "lng", "oil", "hydraulic_oil"}

(* C9: apply_temperature_compensation is total over the 12 media and        *)
(* returns distance_raw_mm * (c0 + c1 t + c2 t^2) truncated toward zero;    *)
(* the water-like media agree, and so do the liquid-fuel media.             *)
C9_TruncatedCompensation ==
    GotReading =>
        LET d == DistanceOfPayload
            t == TempRawOfPayload
            f == CompensationFactor(COMPENSATION_COEFFICIENTS[medium_type], t)
            whole == WholePartOfProduct(d, FactorAbs(f))
        IN  /\ \A m \in MediumType : apply_temperature_compensation(d, t, m).exc = "none"
            /\ parsed.compensated_distance_mm = IF f[1] < 0 THEN -whole ELSE whole
            /\ \A m \in WaterLike :
                  apply_temperature_compensation(d, t, m)
                    = apply_temperature_compensation(d, t, "fresh_water")
            /\ \A m \in LiquidFuel :
                  apply_temperature_compensation(d, t, m)
                    = apply_temperature_compensation(d, t, "gasoline")

(* a product whose fractional part is above one half: rounding would differ *)
C9_Witness ==
    /\ GotReading
    /\ medium_type = "diesel"
    /\ FractionOfProduct(DistanceOfPayload,
                         CompensationFactor(COMPENSATION_COEFFICIENTS[medium_type],
                                            TempRawOfPayload)) >= 5001
    /\ parsed.compensated_distance_mm > 0

(* C10 as claimed: some medium and temp_raw in 0..127 make the factor       *)
(* negative, and with it the compensated distance of the largest raw        *)
(* distance.                                                                *)
C10_NegativeFactorExists ==
    \E m \in MediumType, t \in 0..127 :
        /\ FactorIsNegative(CompensationFactor(COMPENSATION_COEFFICIENTS[m], t))
        /\ apply_temperature_compensation(16383, t, m).val < 0

(* C10, amended: for every medium and every temp_raw the decoder can        *)
(* produce the factor is positive, and the compensated distance of every    *)
(* reading is >= 0 (and > 0 from a raw distance of 8 mm on).                *)
C10_FactorNeverNegative ==
    GotReading =>
        LET f == CompensationFactor(COMPENSATION_COEFFICIENTS[medium_type], TempRawOfPayload)
        IN  /\ ~FactorIsNegative(f)
            /\ f[1] >= 12836085
            /\ parsed.compensated_distance_mm >= 0
            /\ (parsed.distance_raw_mm >= 8) => parsed.compensated_distance_mm > 0

(* the extreme low-temperature end: temp_raw = 0, a non-zero distance *)
C10_Witness ==
    /\ GotReading
    /\ TempRawOfPayload = 0
    /\ parsed.distance_raw_mm = 16383
    /\ parsed.compensated_distance_mm > 0

----------------------------------------------------------------------------
(* Claims about the tank-level function (checked under SpecTank)           *)

Calculated == pc = "calculated"
FillDepth == measured_depth_mm - TankSpecFor(tank_type).wall_thickness_mm
Horizontal == TankSpecFor(tank_type).orientation = "horizontal"
Tolerance == PctUnit \div 1000

(* C4: for every tank type and every measured depth the result is a value   *)
(* in [0, 100]; it is 0 when depth - wall_thickness is negative and 100     *)
(* when it exceeds the tank bound.                                          *)
C4_PercentInRange ==
    Calculated =>
        /\ tank_result.exc = "none"
        /\ tank_result.val >= 0
        /\ tank_result.val <= 100 * PctUnit
        /\ (FillDepth < 0) => tank_result.val = 0
        /\ (FillDepth > TankBound(tank_type)) => tank_result.val = 100 * PctUnit

C4_Witness ==
    /\ Calculated
    /\ tank_type = "5gal_x"
    /\ FillDepth < 0
    /\ measured_depth_mm > 0
    /\ tank_result.val = 0

(* C5: for a fixed tank, a larger depth never gives a smaller percentage,   *)
(* across the region boundaries and beyond the maximum.  The depths         *)
(* compared are those of DepthGrid: whole millimetres, as the decoder       *)
(* passes them, and the region boundaries with a millimetre to either       *)
(* side; differences below the resolution of the arithmetic are not         *)
(* compared.                                                                *)
C5_Monotone ==
    (Calculated /\ prev_result.exc = "none") =>
        /\ prev_depth_mm < measured_depth_mm
        /\ tank_result.exc = "none"
        /\ prev_result.val <= tank_result.val

(* a step across the boundary between the bottom cap and the cylinder *)
C5_Witness ==
    /\ Calculated
    /\ prev_result.exc = "none"
    /\ tank_type = "30lb_v"
    /\ prev_depth_mm - TankSpecFor(tank_type).wall_thickness_mm
         < radius_mm(TankSpecFor(tank_type)) \div 2
    /\ FillDepth > radius_mm(TankSpecFor(tank_type)) \div 2
    /\ prev_result.val > 0
    /\ prev_result.val < tank_result.val

(* C6: for "20lb_v", fill_depth = 0 gives 0% and fill_depth = tank_height   *)
(* (= side_length + radius/2) gives 100%.                                   *)
C6_TwentyPoundBoundaries ==
    (Calculated /\ tank_type = "20lb_v") =>
        /\ (FillDepth = 0) => tank_result = Ok(0)
        /\ (FillDepth = TankBound("20lb_v")) => tank_result = Ok(100 * PctUnit)

----------------------------------------------------------------------------
(* Claims about what the decoder reads (checked under SpecParse)           *)

(* The payload cut to its first 10 bytes, with bit 7 of byte 2 cleared and  *)
(* bytes 5-7 zeroed: two payloads that agree on the bits the layout names   *)
(* have the same reduced payload.                                           *)
SpecifiedBitsOnly(payload) ==
    [i \in 1..10 |->
        CASE i = 3 -> payload[i] % 128
          [] i \in {6, 7, 8} -> 0
          [] OTHER -> payload[i]]

SameExceptTimestamp(a, b) ==
    /\ a.kind = "reading"
    /\ b.kind = "reading"
    /\ [a EXCEPT !.timestamp = 0] = [b EXCEPT !.timestamp = 0]

(* C11: decoding is deterministic and reads only the specified bits: a      *)
(* second call, at another time, on the same payload or on any payload of   *)
(* length >= 10 agreeing with it on bytes 0, 1, 3, 4, 8, 9 and the low 7    *)
(* bits of byte 2, gives a reading equal in every field but timestamp.      *)
(* Every such payload, the same byte sequence included, has the reduced     *)
(* payload of SpecifiedBitsOnly in common, so it is enough that a call and  *)
(* a later call on the reduced payload agree.                               *)
C11_OnlySpecifiedBits ==
    GotReading =>
        SameExceptTimestamp(parsed,
            parse_mopeka_data(Address, SpecifiedBitsOnly(manufacturer_data),
                              medium_type, tank_type, Clock + 1))

(* a payload longer than 10 bytes with bit 7 of byte 2 set and bytes 5-7    *)
(* not zero                                                                 *)
C11_Witness ==
    /\ GotReading
    /\ Len(manufacturer_data) > 10
    /\ PayloadByte(2) >= 128
    /\ PayloadByte(5) # 0
    /\ SpecifiedBitsOnly(manufacturer_data) # manufacturer_data

----------------------------------------------------------------------------
(* Claims about degenerate dimensions (checked under SpecGeometry)         *)

(* C12: for a degenerate spec (radius 0, which makes max_volume 0) both     *)
(* geometry functions return 0.0 for every fill_depth >= 0 and raise        *)
(* nothing.                                                                 *)
C12_DegenerateGivesZero ==
    (pc = "returned" /\ geometry.radius = 0 /\ geometry.fill_depth >= 0) =>
        tank_result = Ok(0)

----------------------------------------------------------------------------
(* Claims about unknown tank types (checked under SpecParse)               *)

FallbackDepths ==
    {d * LenUnit : d \in {-1, 0, 3, 4, 50, 78, 100, 170, 200, 244, 245, 300}}

(* C13: for a tank_type that is no key of TANK_SPECS,                       *)
(* calculate_tank_percentage returns for every depth the value it returns   *)
(* for "20lb_v" and never fails; the reading carries the tank_type string   *)
(* that was supplied.                                                       *)
C13_UnknownTankIsTwentyPound ==
    GotReading =>
        /\ parsed.tank_type = tank_type
        /\ (tank_type \notin {"20lb_v", "30lb_v", "40lb_v", "250gal_h", "500gal_h",
                              "1000gal_h", "europe_6kg", "europe_11kg", "europe_14kg",
                              "custom"}) =>
              /\ parsed.tank_level_percent
                   = calculate_tank_percentage("20lb_v",
                                               parsed.compensated_distance_mm * LenUnit).val
              /\ \A d \in FallbackDepths :
                    /\ calculate_tank_percentage(tank_type, d).exc = "none"
                    /\ calculate_tank_percentage(tank_type, d)
                         = calculate_tank_percentage("20lb_v", d)

C13_Witness ==
    /\ GotReading
    /\ tank_type = "5gal_x"
    /\ parsed.tank_type = "5gal_x"
    /\ parsed.tank_level_percent > 0
    /\ parsed.tank_level_percent < 100 * PctUnit

----------------------------------------------------------------------------
(* Claims about the coordinator (checked under SpecCoord)                  *)

(* The acceptance rule, read off the advertisement alone. *)
CarriesVendorPayload(service_info) == 89 \in DOMAIN service_info.manufacturer_data
VendorPayload(service_info) == service_info.manufacturer_data[89]
Decodes(payload) == Len(payload) >= 10 /\ payload[1] \in {3, 4, 5, 8, 9, 10, 11, 12}
QualityOf(payload) == <<0, 33, 67, 100>>[(payload[5] \div 64) + 1]
Acceptable(service_info, minimum) ==
    /\ CarriesVendorPayload(service_info)
    /\ Decodes(VendorPayload(service_info))
    /\ QualityOf(VendorPayload(service_info)) >= minimum

(* The step just taken ran _handle_service_info on HandledInfo: a delivered  *)
(* advertisement, or the replay of async_start.                               *)
HandlerRan ==
    \/ event'.op = "advertisement" /\ callbacks # {}
    \/ event'.op = "async_start" /\ last_service_info # None
HandledInfo == IF event'.op = "advertisement" THEN last_service_info' ELSE last_service_info

AcceptanceRule ==
    /\ (HandlerRan /\ Acceptable(HandledInfo, minimum_quality)) =>
          /\ data' = parse_mopeka_data(HandledInfo.address, VendorPayload(HandledInfo),
                                       medium_type, tank_type, Clock + now)
          /\ data'.kind = "reading"
          /\ last_seen_monotonic' = Float(now)
          /\ notified'
    /\ (HandlerRan /\ ~Acceptable(HandledInfo, minimum_quality)) =>
          /\ UNCHANGED <<data, last_seen_monotonic>>
          /\ ~notified'
    /\ ~HandlerRan => UNCHANGED <<data, last_seen_monotonic>>
    /\ (data' # None) => data'.quality_percent >= minimum_quality

(* C14: the decoder applies no quality filter; _handle_service_info replaces *)
(* the held reading by the newly decoded one, refreshes the last-seen time   *)
(* and updates the listeners exactly when the advertisement carries a        *)
(* payload under vendor id 0x0059 that decodes to a reading of quality >=    *)
(* minimum_quality; otherwise reading and last-seen time stay as they were   *)
(* and no listener is updated.  No other step changes the held reading.      *)
C14_AcceptanceRule == [][AcceptanceRule]_vars

(* a decodable advertisement of quality 33 was handled and dropped while a   *)
(* reading of quality 100 is held                                            *)
C14_Witness ==
    /\ event.op = "advertisement"
    /\ callbacks # {}
    /\ minimum_quality = 50
    /\ last_service_info = LowQualityInfo
    /\ data # None
    /\ data.quality_percent = 100
    /\ ~notified

(* Seconds since the held reading was decoded. *)
HeldReadingAge == now - (data.timestamp - Clock)

StalenessRule ==
    /\ ((HandlerRan /\ ~Acceptable(HandledInfo, minimum_quality)) \/ event'.op = "refresh") =>
          UNCHANGED <<data, last_seen_monotonic, now>>
    /\ data_healthy(last_seen_monotonic, now)'
          <=> (data' # None /\ HeldReadingAge' < 120)
    /\ available(last_seen_monotonic, now)'
          <=> (data' # None /\ HeldReadingAge' < 1800)

(* C15: data_healthy holds exactly when an advertisement was accepted less   *)
(* than 120 seconds ago, available exactly when one was accepted less than   *)
(* 1800 seconds ago; dropped advertisements and the periodic refresh change  *)
(* neither the last-seen time nor the held reading.                          *)
C15_StalenessFromLastAccepted == [][StalenessRule]_vars

(* only dropped frames since the reading was accepted, 1800 seconds ago: the *)
(* reading is still held, the sensor is unhealthy and unavailable            *)
C15_Witness ==
    /\ event.op = "advertisement"
    /\ callbacks # {}
    /\ ~Acceptable(last_service_info, minimum_quality)
    /\ data # None
    /\ HeldReadingAge = 1800
    /\ ~data_healthy(last_seen_monotonic, now)
    /\ ~available(last_seen_monotonic, now)

(* C16: in every coordinator state data_healthy implies available and        *)
(* available implies that a reading is held; while nothing has been          *)
(* accepted, data_healthy and available are false, last_seen_age is None and *)
(* no reading is held; the sensor entities' own check changes nothing.       *)
C16_HealthyAvailableHeld ==
    /\ data_healthy(last_seen_monotonic, now) => available(last_seen_monotonic, now)
    /\ available(last_seen_monotonic, now) => data # None
    /\ (data = None) <=> (last_seen_monotonic = None)
    /\ (data = None) =>
          /\ ~data_healthy(last_seen_monotonic, now)
          /\ ~available(last_seen_monotonic, now)
          /\ last_seen_age(last_seen_monotonic, now) = None
    /\ sensor_available(data, last_seen_monotonic, now) = available(last_seen_monotonic, now)

(* a refresh a minute after an accepted advertisement *)
C16_Witness ==
    /\ event.op = "refresh"
    /\ data # None
    /\ last_seen_age(last_seen_monotonic, now) = Float(60)
    /\ data_healthy(last_seen_monotonic, now)
    /\ available(last_seen_monotonic, now)

(* C17: once async_stop has returned (and until the next async_start) no     *)
(* callback of the coordinator is subscribed, and no unsubscribe function    *)
(* has run more than once.                                                   *)
C17_StopLeavesNothingSubscribed ==
    /\ (unsub_ble = None) => callbacks = {}
    /\ \A id \in DOMAIN unsub_calls : unsub_calls[id] <= 1

=============================================================================
